---- MODULE Spec2Model ----
(***************************************************************************)
(* LineageHelper.visualize_lineage (src/src/notebook_extras/lineage.py):   *)
(* graph construction from the rows of a DataFrame, column layout by       *)
(* distance, viewport computation and edge trace construction.             *)
(*                                                                         *)
(* Representation.                                                         *)
(*  - A node name is a Python str, modelled as the sequence of its         *)
(*    character codes (1 = "A", 2 = "B"), so that sorted() is the          *)
(*    lexicographic order on code points.                                  *)
(*  - A SOURCE_OBJECT / TARGET_OBJECT cell is a JSON text, modelled by     *)
(*    what json.loads makes of it: either it raises (parses = FALSE) or it *)
(*    yields an object with a "name" and an optional "domain".             *)
(*  - y coordinates are kept in half units (y2 = 2*y), x_range and y_range *)
(*    in twentieths (20 * value), so that (n-1)/2 and the factor 1.2 are   *)
(*    exact integers.                                                      *)
(*  - DIRECTION is never read by the code and is left out of the rows.     *)
(***************************************************************************)
EXTENDS Integers, Sequences, FiniteSets, TLC

\* Largest number of rows of the DataFrame.
MaxRows == 2
\* Largest DISTANCE value of a row (DISTANCE ranges over 0..MaxDist).
MaxDist == 2

VARIABLES df, G, ultimate_target_id, idx, pc, max_distance, pos,
          initial_zoom, x_range, y_range, edge_trace

vars == <<df, G, ultimate_target_id, idx, pc, max_distance, pos,
          initial_zoom, x_range, y_range, edge_trace>>

-----------------------------------------------------------------------------
\* Inputs

NameA == <<1>>
NameAB == <<1, 2>>
NameB == <<2>>

\* A cell on which json.loads raises.
BadJson == [parses |-> FALSE, name |-> <<>>, hasDomain |-> FALSE, domain |-> "Unknown"]

JsonObj(n, d) == [parses |-> TRUE, name |-> n, hasDomain |-> TRUE, domain |-> d]

JsonObjNoDomain(n) == [parses |-> TRUE, name |-> n, hasDomain |-> FALSE, domain |-> "Unknown"]

\* The JSON texts a cell is drawn from.
Docs == {BadJson, JsonObj(NameA, "TABLE"), JsonObjNoDomain(NameAB), JsonObj(NameB, "MODEL")}

Rows == [SOURCE_OBJECT : Docs, TARGET_OBJECT : Docs, DISTANCE : 0..MaxDist]

DataFrames == UNION {[1..n -> Rows] : n \in 1..MaxRows}

ZoomValues == {1, 2}

-----------------------------------------------------------------------------
\* Helpers

Min2(a, b) == IF a <= b THEN a ELSE b

SetMin(S) == CHOOSE m \in S : \A s \in S : m <= s

SetMax(S) == CHOOSE m \in S : \A s \in S : s <= m

\* obj.get("domain", "Unknown")
GetDomain(obj) == IF obj.hasDomain THEN obj.domain ELSE "Unknown"

\* Variant of StrLess that compares lengths before characters.
RECURSIVE StrLessShortlex(_, _)
StrLessShortlex(a, b) ==
    IF Len(a) # Len(b) THEN Len(a) < Len(b)
    ELSE IF a = <<>> THEN FALSE
    ELSE IF Head(a) # Head(b) THEN Head(a) < Head(b)
    ELSE StrLessShortlex(Tail(a), Tail(b))

\* Python's str "<": lexicographic on code points, a proper prefix sorts first.
RECURSIVE StrLess(_, _)
StrLess(a, b) ==
    IF b = <<>> THEN FALSE
    ELSE IF a = <<>> THEN TRUE
    ELSE IF Head(a) # Head(b) THEN Head(a) < Head(b)
    ELSE StrLess(Tail(a), Tail(b))

\* sorted(nodes)
RECURSIVE Sorted(_)
Sorted(S) ==
    IF S = {} THEN <<>>
    ELSE LET m == CHOOSE x \in S : \A y \in S \ {x} : StrLess(x, y)
         IN  <<m>> \o Sorted(S \ {m})

-----------------------------------------------------------------------------
\* Graph construction

\* Variant of UpsertNode that leaves an existing node's distance alone.
UpsertNodeKeepFirst(nodes, id, domain, distance) ==
    IF id \in DOMAIN nodes
    THEN nodes
    ELSE (id :> [domain |-> domain, distance |-> distance]) @@ nodes

\* Variant of UpsertNode that assigns the new distance without min().
UpsertNodeOverwrite(nodes, id, domain, distance) ==
    IF id \in DOMAIN nodes
    THEN [nodes EXCEPT ![id].distance = distance]
    ELSE (id :> [domain |-> domain, distance |-> distance]) @@ nodes

\* "if id in G.nodes: distance = min(distance, d) else: G.add_node(id, domain, d)"
UpsertNode(nodes, id, domain, distance) ==
    IF id \in DOMAIN nodes
    THEN [nodes EXCEPT ![id].distance = Min2(@, distance)]
    ELSE (id :> [domain |-> domain, distance |-> distance]) @@ nodes

\* Variant of TgtDistance without the test for the ultimate target.
TgtDistanceNoUltimate(tgt_id, ult, distance) == distance - 1

\* tgt_distance of a row
TgtDistance(tgt_id, ult, distance) ==
    IF tgt_id = ult THEN 0 ELSE distance - 1

\* Variant of ProcessRow that parses both cells before it touches the graph.
ProcessRowParseFirst(g, row, ult) ==
    IF ~row.SOURCE_OBJECT.parses \/ ~row.TARGET_OBJECT.parses THEN g
    ELSE LET src_obj == row.SOURCE_OBJECT
             tgt_obj == row.TARGET_OBJECT
             withSrc == UpsertNode(g.nodes, src_obj.name, GetDomain(src_obj), row.DISTANCE)
             withTgt == UpsertNode(withSrc, tgt_obj.name, GetDomain(tgt_obj),
                                   TgtDistance(tgt_obj.name, ult, row.DISTANCE))
         IN  [nodes |-> withTgt, edges |-> g.edges \cup {<<src_obj.name, tgt_obj.name>>}]

\* Variant of ProcessRow that adds the edge without the target node.
ProcessRowNoTargetNode(g, row, ult) ==
    IF ~row.SOURCE_OBJECT.parses THEN g
    ELSE LET src_obj == row.SOURCE_OBJECT
             tgt_obj == row.TARGET_OBJECT
             withSrc == UpsertNode(g.nodes, src_obj.name, GetDomain(src_obj), row.DISTANCE)
         IN  IF ~tgt_obj.parses THEN [g EXCEPT !.nodes = withSrc]
             ELSE [nodes |-> withSrc,
                   edges |-> g.edges \cup {<<src_obj.name, tgt_obj.name>>}]

\* Variant of ProcessRow that handles the target cell before the source cell.
ProcessRowTargetFirst(g, row, ult) ==
    LET src_obj == row.SOURCE_OBJECT
        tgt_obj == row.TARGET_OBJECT
        withTgt == IF tgt_obj.parses
                   THEN UpsertNode(g.nodes, tgt_obj.name, GetDomain(tgt_obj),
                                   TgtDistance(tgt_obj.name, ult, row.DISTANCE))
                   ELSE g.nodes
    IN  IF ~src_obj.parses THEN [g EXCEPT !.nodes = withTgt]
        ELSE LET withSrc == UpsertNode(withTgt, src_obj.name, GetDomain(src_obj),
                                       row.DISTANCE)
             IN  IF ~tgt_obj.parses THEN [g EXCEPT !.nodes = withSrc]
                 ELSE [nodes |-> withSrc,
                       edges |-> g.edges \cup {<<src_obj.name, tgt_obj.name>>}]

\* The body of the loop over df.iterrows() for one row: a failing json.loads
\* of SOURCE_OBJECT skips the row, a failing json.loads of TARGET_OBJECT skips
\* what follows the source node's update.
ProcessRow(g, row, ult) ==
    IF ~row.SOURCE_OBJECT.parses THEN g
    ELSE LET src_obj == row.SOURCE_OBJECT
             tgt_obj == row.TARGET_OBJECT
             withSrc == UpsertNode(g.nodes, src_obj.name, GetDomain(src_obj), row.DISTANCE)
         IN  IF ~tgt_obj.parses THEN [g EXCEPT !.nodes = withSrc]
             ELSE LET withTgt == UpsertNode(withSrc, tgt_obj.name, GetDomain(tgt_obj),
                                            TgtDistance(tgt_obj.name, ult, row.DISTANCE))
                  IN  [nodes |-> withTgt,
                       edges |-> g.edges \cup {<<src_obj.name, tgt_obj.name>>}]

\* G after "G.add_node(ultimate_target_id, domain=..., distance=0)"
InitialGraph(d) ==
    [nodes |-> (d[1].TARGET_OBJECT.name :>
                   [domain |-> GetDomain(d[1].TARGET_OBJECT), distance |-> 0]),
     edges |-> {}]

\* G after the first k rows of d have gone through the loop.
RECURSIVE BuildGraph(_, _)
BuildGraph(d, k) ==
    IF k = 0 THEN InitialGraph(d)
    ELSE ProcessRow(BuildGraph(d, k - 1), d[k], d[1].TARGET_OBJECT.name)

-----------------------------------------------------------------------------
\* Layout

\* max(distances)
MaxDistanceOf(nodes) == SetMax({nodes[n].distance : n \in DOMAIN nodes})

\* distance_groups: distance -> the nodes with that distance
DistanceGroups(nodes) ==
    [d \in {nodes[n].distance : n \in DOMAIN nodes} |->
        {n \in DOMAIN nodes : nodes[n].distance = d}]

\* np.linspace(start, stop, n) in half units: start + i * step, i = 0..n-1
Linspace2(start2, stop2, n) ==
    IF n = 1 THEN <<start2>>
    ELSE [i \in 1..n |-> start2 + (i - 1) * ((stop2 - start2) \div (n - 1))]

\* Position of the node at place i of the sorted group of distance d.
GroupPos(nodes_sorted, d, maxd) ==
    LET n == Len(nodes_sorted)
        y_positions == Linspace2(n - 1, -(n - 1), n)
    IN  {<<nodes_sorted[i], <<maxd - d, y_positions[i]>>>> : i \in 1..n}

\* pos: node -> (x, y2)
ComputePos(nodes) ==
    LET groups == DistanceGroups(nodes)
        maxd == MaxDistanceOf(nodes)
        placed == UNION {GroupPos(Sorted(groups[d]), d, maxd) : d \in DOMAIN groups}
    IN  [n \in {p[1] : p \in placed} |-> (CHOOSE p \in placed : p[1] = n)[2]]

-----------------------------------------------------------------------------
\* Viewport

\* Variant of AxisRange that takes the default range for a single point too.
AxisRangeDefaultForPoint(cs, unit2, zoom) ==
    IF cs # {} /\ SetMin(cs) # SetMax(cs)
    THEN LET lo == SetMin(cs)
             hi == SetMax(cs)
             center20 == ((lo + hi) * 10) \div unit2
             half20 == (((hi - lo) * 12) \div unit2) \div zoom
         IN  <<center20 - half20, center20 + half20>>
    ELSE <<-20, 20>>

\* [center - half, center + half] in twentieths, from the coordinates cs
\* given in units of 1/unit2 (1 for x, 2 for y2); (-1, 1) for no coordinates;
\* half = ((max - min) / 2) * 1.2 / initial_zoom.
AxisRange(cs, unit2, zoom) ==
    LET lo == IF cs # {} THEN SetMin(cs) ELSE -unit2
        hi == IF cs # {} THEN SetMax(cs) ELSE unit2
        center20 == ((lo + hi) * 10) \div unit2
        half20 == (((hi - lo) * 12) \div unit2) \div zoom
    IN  <<center20 - half20, center20 + half20>>

-----------------------------------------------------------------------------
\* The state machine

NoPos == <<>>

Init ==
    /\ df \in DataFrames
    /\ df[1].TARGET_OBJECT.parses
    /\ ultimate_target_id = df[1].TARGET_OBJECT.name
    /\ G = InitialGraph(df)
    /\ idx = 1
    /\ pc = "loop"
    /\ max_distance = 0
    /\ pos = NoPos
    /\ initial_zoom = 1
    /\ x_range = <<0, 0>>
    /\ y_range = <<0, 0>>
    /\ edge_trace = {}

\* One iteration of "for idx, row in df.iterrows()".
LoopBody ==
    /\ pc = "loop"
    /\ idx <= Len(df)
    /\ G' = ProcessRow(G, df[idx], ultimate_target_id)
    /\ idx' = idx + 1
    /\ UNCHANGED <<df, ultimate_target_id, pc, max_distance, pos,
                   initial_zoom, x_range, y_range, edge_trace>>

\* "Compute layout positions", entered when the loop is exhausted.
Layout ==
    /\ pc = "loop"
    /\ idx > Len(df)
    /\ max_distance' = MaxDistanceOf(G.nodes)
    /\ pos' = ComputePos(G.nodes)
    /\ pc' = "viewport"
    /\ UNCHANGED <<df, G, ultimate_target_id, idx, initial_zoom,
                   x_range, y_range, edge_trace>>

\* "Determine axis ranges based on initial_zoom".
Viewport ==
    /\ pc = "viewport"
    /\ \E z \in ZoomValues :
          /\ initial_zoom' = z
          /\ x_range' = AxisRange({pos[n][1] : n \in DOMAIN pos}, 1, z)
          /\ y_range' = AxisRange({pos[n][2] : n \in DOMAIN pos}, 2, z)
    /\ pc' = "edges"
    /\ UNCHANGED <<df, G, ultimate_target_id, idx, max_distance, pos, edge_trace>>

\* "Create Plotly traces for edges": pos[u] and pos[v] of every edge; a
\* missing key raises KeyError.
EdgeTrace ==
    /\ pc = "edges"
    /\ IF \A e \in G.edges : e[1] \in DOMAIN pos /\ e[2] \in DOMAIN pos
       THEN /\ edge_trace' = {<<pos[e[1]], pos[e[2]]>> : e \in G.edges}
            /\ pc' = "done"
       ELSE /\ edge_trace' = edge_trace
            /\ pc' = "KeyError"
    /\ UNCHANGED <<df, G, ultimate_target_id, idx, max_distance, pos,
                   initial_zoom, x_range, y_range>>

Next == LoopBody \/ Layout \/ Viewport \/ EdgeTrace

Spec == Init /\ [][Next]_vars

-----------------------------------------------------------------------------
\* Vocabulary of the properties

\* The loop over the rows has ended.
Built == idx > Len(df)

\* pos has been computed.
LaidOut == pc \in {"viewport", "edges", "done"}

\* x_range and y_range have been computed.
Ranged == pc \in {"edges", "done"}

\* Row i has gone through the loop.
Processed(i) == i \in 1..Len(df) /\ i < idx

SrcOk(r) == r.SOURCE_OBJECT.parses

TgtOk(r) == r.TARGET_OBJECT.parses

\* a sorts before b in ascending lexicographic order (stated positionally).
LexBefore(a, b) ==
    \E k \in 1..Len(b) :
        /\ \A j \in 1..(k - 1) : j <= Len(a) /\ a[j] = b[j]
        /\ \/ Len(a) = k - 1
           \/ Len(a) >= k /\ a[k] < b[k]

\* The reorderings of the rows of d.
PermsOf(d) ==
    LET n == Len(d)
        bij == {f \in [1..n -> 1..n] : \A a, b \in 1..n : a # b => f[a] # f[b]}
    IN  {[i \in 1..n |-> d[f[i]]] : f \in bij}

RECURSIVE SumY2(_, _)
SumY2(S, p) ==
    IF S = {} THEN 0
    ELSE LET a == CHOOSE x \in S : TRUE IN p[a][2] + SumY2(S \ {a}, p)

\* The distance a row claims for its target node.
TargetClaim(r, n) == IF n = ultimate_target_id THEN 0 ELSE r.DISTANCE - 1

\* Claims of every row that names n, whether or not the row was skipped.
ClaimsOfAllRows(n) ==
    (IF n = ultimate_target_id THEN {0} ELSE {})
    \cup {df[i].DISTANCE : i \in {j \in 1..Len(df) : SrcOk(df[j]) /\ df[j].SOURCE_OBJECT.name = n}}
    \cup {TargetClaim(df[i], n) :
             i \in {j \in 1..Len(df) : TgtOk(df[j]) /\ df[j].TARGET_OBJECT.name = n}}

\* Claims of the rows as far as the loop gets through them: nothing from a row
\* whose SOURCE_OBJECT does not parse, the source claim only from a row whose
\* TARGET_OBJECT does not parse.
ClaimsOfAppliedRows(n) ==
    (IF n = ultimate_target_id THEN {0} ELSE {})
    \cup {df[i].DISTANCE : i \in {j \in 1..Len(df) : SrcOk(df[j]) /\ df[j].SOURCE_OBJECT.name = n}}
    \cup {TargetClaim(df[i], n) :
             i \in {j \in 1..Len(df) : SrcOk(df[j]) /\ TgtOk(df[j])
                                        /\ df[j].TARGET_OBJECT.name = n}}

-----------------------------------------------------------------------------
\* Properties

\* C1: with non-negative DISTANCE values, the ultimate target is a node of
\* distance exactly 0 after row 0 is set up, after every processed row and at
\* the end of graph construction.
C1_UltimateTargetDistanceZero ==
    /\ ultimate_target_id \in DOMAIN G.nodes
    /\ G.nodes[ultimate_target_id].distance = 0

\* C1 witness: construction has ended and a processed row named the ultimate
\* target as its source with a DISTANCE greater than 0.
C1_Witness ==
    /\ Built
    /\ \E i \in 1..Len(df) :
          /\ SrcOk(df[i])
          /\ df[i].SOURCE_OBJECT.name = ultimate_target_id
          /\ df[i].DISTANCE > 0

\* C2 as stated: at the end of construction every node's distance is the
\* minimum of the claims of all rows that name it.
C2_MinOfAllRowClaims ==
    Built => \A n \in DOMAIN G.nodes : G.nodes[n].distance = SetMin(ClaimsOfAllRows(n))

\* C2 as amended: at the end of construction every node's distance is the
\* minimum of the claims of the rows that were not skipped.
C2_MinOfAppliedClaims ==
    Built => \A n \in DOMAIN G.nodes : G.nodes[n].distance = SetMin(ClaimsOfAppliedRows(n))

\* C2 witness: construction has ended and some node has two different claims,
\* the larger one made first.
C2_Witness ==
    /\ Built
    /\ \E i, j \in 1..Len(df) :
          /\ i < j
          /\ SrcOk(df[i]) /\ SrcOk(df[j])
          /\ df[i].SOURCE_OBJECT.name = df[j].SOURCE_OBJECT.name
          /\ df[i].SOURCE_OBJECT.name # ultimate_target_id
          /\ df[i].DISTANCE > df[j].DISTANCE
          /\ G.nodes[df[i].SOURCE_OBJECT.name].distance = df[j].DISTANCE

\* C3: a row whose SOURCE_OBJECT does not parse leaves the nodes, their
\* distances and domains and the edges as they were, the loop goes on to the
\* next row, and every later row whose fields parse has its nodes and its
\* edge in the graph once processed.
C3_BadSourceRowSkipped ==
    /\ [][(pc = "loop" /\ idx <= Len(df) /\ ~SrcOk(df[idx]))
            => (G' = G /\ idx' = idx + 1 /\ pc' = "loop")]_vars
    /\ [](\A i, j \in 1..Len(df) :
            (i < j /\ Processed(j) /\ ~SrcOk(df[i]) /\ SrcOk(df[j]) /\ TgtOk(df[j]))
            => /\ df[j].SOURCE_OBJECT.name \in DOMAIN G.nodes
               /\ df[j].TARGET_OBJECT.name \in DOMAIN G.nodes
               /\ <<df[j].SOURCE_OBJECT.name, df[j].TARGET_OBJECT.name>> \in G.edges)

\* C3 witness: a row with an unparseable SOURCE_OBJECT was processed and left
\* the graph as it was, and a later row whose fields parse was processed and
\* added a node and an edge.
C3_Witness ==
    \E i, j \in 1..Len(df) :
        /\ i < j /\ Processed(j)
        /\ ~SrcOk(df[i])
        /\ BuildGraph(df, i) = BuildGraph(df, i - 1)
        /\ SrcOk(df[j]) /\ TgtOk(df[j])
        /\ df[j].SOURCE_OBJECT.name \notin DOMAIN BuildGraph(df, j - 1).nodes
        /\ <<df[j].SOURCE_OBJECT.name, df[j].TARGET_OBJECT.name>> \in G.edges

\* C4 as stated: a row after row 0 whose SOURCE_OBJECT parses and whose
\* TARGET_OBJECT does not adds no node, changes no distance and adds no edge.
C4_BadTargetRowNoContribution ==
    [][(pc = "loop" /\ idx <= Len(df) /\ idx > 1 /\ SrcOk(df[idx]) /\ ~TgtOk(df[idx]))
         => /\ DOMAIN G'.nodes = DOMAIN G.nodes
            /\ \A n \in DOMAIN G.nodes : G'.nodes[n].distance = G.nodes[n].distance
            /\ G'.edges = G.edges]_vars

\* C4 as amended: such a row adds no edge and no target node; only its source
\* node is touched, created with DISTANCE or lowered to min(old, DISTANCE);
\* the loop goes on to the next row.
C4_BadTargetRowKeepsSourceOnly ==
    [][(pc = "loop" /\ idx <= Len(df) /\ idx > 1 /\ SrcOk(df[idx]) /\ ~TgtOk(df[idx]))
         => LET s == df[idx].SOURCE_OBJECT.name
                dist == df[idx].DISTANCE
            IN  /\ G'.edges = G.edges
                /\ DOMAIN G'.nodes = DOMAIN G.nodes \cup {s}
                /\ \A n \in DOMAIN G.nodes \ {s} : G'.nodes[n] = G.nodes[n]
                /\ G'.nodes[s].distance =
                      IF s \in DOMAIN G.nodes
                      THEN (IF G.nodes[s].distance <= dist THEN G.nodes[s].distance ELSE dist)
                      ELSE dist
                /\ idx' = idx + 1
                /\ pc' = "loop"]_vars

\* C4 witness: a row after row 0 with a parseable SOURCE_OBJECT and an
\* unparseable TARGET_OBJECT has been processed and its source node was new.
C4_Witness ==
    \E i \in 2..Len(df) :
        /\ Processed(i)
        /\ SrcOk(df[i]) /\ ~TgtOk(df[i])
        /\ df[i].SOURCE_OBJECT.name \notin DOMAIN BuildGraph(df, i - 1).nodes
        /\ df[i].SOURCE_OBJECT.name \in DOMAIN G.nodes

\* C5: with non-negative DISTANCE values, no node is placed at an x greater
\* than the ultimate target's x.
C5_UltimateTargetRightmost ==
    LaidOut => \A n \in DOMAIN pos : pos[n][1] <= pos[ultimate_target_id][1]

\* C6 as stated: with zero edges and the ultimate target as the only node the
\* viewport is [-1, 1] on both axes.
C6_SingleNodeDefaultViewport ==
    (Ranged /\ G.edges = {} /\ Cardinality(DOMAIN G.nodes) = 1)
        => (x_range = <<-20, 20>> /\ y_range = <<-20, 20>>)

\* C6 as amended: with zero edges and the ultimate target as the only node the
\* viewport is the single point [0, 0] on both axes.
C6_SingleNodePointViewport ==
    (Ranged /\ G.edges = {} /\ Cardinality(DOMAIN G.nodes) = 1)
        => (x_range = <<0, 0>> /\ y_range = <<0, 0>>)

\* C6 witness: the viewport is computed, every row's SOURCE_OBJECT failed to
\* parse, and the graph is the ultimate target alone.
C6_Witness ==
    /\ Ranged
    /\ \A i \in 1..Len(df) : ~SrcOk(df[i])
    /\ G.edges = {}
    /\ DOMAIN G.nodes = {ultimate_target_id}

\* C7: in every distance group of n nodes, the node with r names of the group
\* sorting before it sits at y = (n-1)/2 - r; a name sorting earlier sits
\* strictly higher, and the group's y positions sum to 0.
C7_GroupOrderedTopDown ==
    LaidOut =>
        \A a \in DOMAIN G.nodes :
            LET grp == {b \in DOMAIN G.nodes : G.nodes[b].distance = G.nodes[a].distance}
                n == Cardinality(grp)
                r == Cardinality({b \in grp : LexBefore(b, a)})
            IN  /\ pos[a][2] = (n - 1) - 2 * r
                /\ \A b \in grp : LexBefore(a, b) => pos[a][2] > pos[b][2]
                /\ SumY2(grp, pos) = 0

\* C7 witness: a laid out distance group holds "A", "AB" and "B".
C7_Witness ==
    /\ LaidOut
    /\ DOMAIN G.nodes = {NameA, NameAB, NameB}
    /\ G.nodes[NameA].distance = G.nodes[NameAB].distance
    /\ G.nodes[NameAB].distance = G.nodes[NameB].distance

\* C8: both endpoints of every edge are nodes carrying a distance; after
\* layout the positioned nodes are exactly the nodes of the graph, and the
\* edge trace never fails on a missing position.
C8_EdgeEndpointsAreNodes ==
    /\ \A e \in G.edges :
          /\ e[1] \in DOMAIN G.nodes /\ G.nodes[e[1]].distance \in Int
          /\ e[2] \in DOMAIN G.nodes /\ G.nodes[e[2]].distance \in Int
    /\ LaidOut => DOMAIN pos = DOMAIN G.nodes
    /\ pc # "KeyError"

\* C8 witness: the edge trace is built for a graph with two edges one of
\* whose endpoints has a negative distance.
C8_Witness ==
    /\ pc = "done"
    /\ Cardinality(G.edges) = 2
    /\ \E e \in G.edges : G.nodes[e[2]].distance < 0

\* C9: across every step a node stays a node and its distance does not grow.
C9_DistanceNeverIncreases ==
    [][\A n \in DOMAIN G.nodes :
          /\ n \in DOMAIN G'.nodes
          /\ G'.nodes[n].distance <= G.nodes[n].distance]_vars

\* C9 witness: the last processed row lowered the distance of an existing node.
C9_Witness ==
    /\ idx > 1
    /\ pc = "loop"
    /\ LET before == BuildGraph(df, idx - 2).nodes
       IN  \E n \in DOMAIN before : G.nodes[n].distance < before[n].distance

\* C10: every reordering of the rows whose row 0 names the same ultimate
\* target yields the same nodes, distances, edges and positions.
C10_RowOrderIndependent ==
    pc = "viewport" =>
        \A p \in PermsOf(df) :
            (TgtOk(p[1]) /\ p[1].TARGET_OBJECT.name = ultimate_target_id)
            => LET g2 == BuildGraph(p, Len(p))
               IN  /\ DOMAIN g2.nodes = DOMAIN G.nodes
                   /\ \A n \in DOMAIN G.nodes : g2.nodes[n].distance = G.nodes[n].distance
                   /\ g2.edges = G.edges
                   /\ ComputePos(g2.nodes) = pos

\* C10 witness: a laid out input of two rows that give one node different
\* claims and that can be swapped without changing the ultimate target.
C10_Witness ==
    /\ pc = "viewport"
    /\ Len(df) >= 2
    /\ TgtOk(df[2]) /\ df[2].TARGET_OBJECT.name = ultimate_target_id
    /\ SrcOk(df[1]) /\ SrcOk(df[2])
    /\ df[1].SOURCE_OBJECT.name = df[2].SOURCE_OBJECT.name
    /\ df[1].DISTANCE # df[2].DISTANCE

====
